---- MODULE Spec2Model ----
(***************************************************************************)
(* A model of hyperad: the Content classes of hyperad/contents.py          *)
(* (ParamContent, FieldContent, FileContent, JSONContent, MultiContent)    *)
(* and App.crequest of hyperad/app.py.                                     *)
(*                                                                         *)
(* Python values are records tagged with their type (field t).  A dict is  *)
(* a function from its keys; a raised exception is the field exc of an     *)
(* operation's outcome ("none" when it returns).                           *)
(***************************************************************************)
EXTENDS Integers, Sequences, FiniteSets, TLC

VARIABLES
    content_list,   \* MultiContent._content_list of the one form
    enctype,        \* MultiContent._enctype of the form
    call,           \* the last operation called, with its arguments
    raised,         \* the exception it raised ("none": it returned)
    returned,       \* the value it returned
    builds,         \* content.build() calls App.crequest made in that call
    requests        \* Session.request calls App.crequest made in that call

vars == <<content_list, enctype, call, raised, returned, builds, requests>>

(***************************************************************************)
(* Bounds of the model.                                                    *)
(***************************************************************************)
MaxMembers == 3      \* members of the form (Spec)
MaxArgs == 2         \* contents given to one add() call (Spec)
MaxAppMembers == 2   \* members of the form (SpecApp)
MaxPathLen == 3      \* characters of a file name (SpecFile)

(***************************************************************************)
(* hyperad/constants.py                                                    *)
(***************************************************************************)
CONTENT_TYPE == "Content-Type"
CONTENT_DISPOSITION == "Content-Disposition"
APPLICATION_JSON == "application/json"
MULTIPART_FORM_DATA == "multipart/form-data"
TEXT_PLAIN == "text/plain"
APPLICATION_X_WWW_FORM_URLENCODED == "application/x-www-form-urlencoded"
APPLICATION_OCTET_STREAM == "application/octet-stream"

(***************************************************************************)
(* Python values.                                                          *)
(***************************************************************************)
None == [t |-> "NoneType"]
Str(s) == [t |-> "str", s |-> s]
Bytes(s) == [t |-> "bytes", s |-> s]
PyInt(s) == [t |-> "int", s |-> s]
\* A str used as a file name: its characters, one string each.
Path(p) == [t |-> "str", p |-> p]
\* float("nan")
NaN == [t |-> "float", s |-> "NaN"]
\* The dict {k: i} of one str key and one int value.
Dict1(k, i) == [t |-> "dict", k |-> k, v |-> i]

EmptyDict == [k \in {} |-> k]

\* An operation's outcome: what it raised and what it returned.
Return(v) == [exc |-> "none", ret |-> v]
Raise(e) == [exc |-> e, ret |-> None]

\* first, and when it did not raise, then: a statement after a call.
Then(first, then) == IF first.exc # "none" THEN first ELSE then

\* The characters of a sequence as one string.
RECURSIVE Join(_)
Join(p) == IF p = <<>> THEN "" ELSE Head(p) \o Join(Tail(p))

\* isinstance(x, (str, bytes))
IsStrOrBytes(x) == x.t \in {"str", "bytes"}

(***************************************************************************)
(* The file argument of FileContent: an object of class t; an object with  *)
(* a name attribute has hasname, and callable when the attribute is a      *)
(* method.                                                                 *)
(***************************************************************************)
FileObj(t, hasname, callable, name) ==
    [t |-> t, hasname |-> hasname, callable |-> callable, name |-> name]

Unnamed(t) == FileObj(t, FALSE, FALSE, None)

IOBaseClasses == {"TextIOWrapper", "BufferedReader", "BytesIO"}
TextIOBaseClasses == {"TextIOWrapper"}
IterableClasses == {"str", "bytes", "list", "NamedIterable"} \cup IOBaseClasses

(***************************************************************************)
(* os.path.split(p)[1]: what follows the last "/".                         *)
(***************************************************************************)
\* p.rfind(ch) + 1: the 1-based place of the last ch, 0 when there is none.
RFind(p, ch) ==
    LET at == {i \in 1..Len(p) : p[i] = ch}
    IN IF at = {} THEN 0 ELSE CHOOSE i \in at : \A j \in at : j <= i

os_path_split_tail(p) == SubSeq(p, RFind(p, "/") + 1, Len(p))

(***************************************************************************)
(* mimetypes.guess_type(p)[0]: the type of the extension of p, None when   *)
(* it has none or an unknown one.  posixpath.splitext: the extension       *)
(* starts at the last "." after the last "/", leading dots of the final    *)
(* component not counted.                                                  *)
(***************************************************************************)
splitext_ext(p) ==
    LET sep == RFind(p, "/")
        dot == RFind(p, ".")
    IN IF dot > sep /\ \E i \in (sep + 1)..(dot - 1) : p[i] # "."
       THEN SubSeq(p, dot, Len(p))
       ELSE <<>>

types_map == (<<".", "c">> :> "text/x-csrc")

guess_type(p) ==
    LET ext == splitext_ext(p)
    IN IF ext \in DOMAIN types_map THEN Str(types_map[ext]) ELSE None

(***************************************************************************)
(* Content.__init__, ParamContent, FieldContent                            *)
(***************************************************************************)
Content_init(name) ==
    IF ~IsStrOrBytes(name) THEN Raise("TypeError") ELSE Return(None)

ParamContent_init(name, value) ==
    Then(Content_init(name),
         IF ~IsStrOrBytes(value) THEN Raise("TypeError")
         ELSE Return([cls |-> "ParamContent", name |-> name,
                      value |-> value]))

ParamContent_build(self) == [params |-> (self.name :> self.value)]

FieldContent_init(name, value) ==
    Then(Content_init(name),
         IF ~IsStrOrBytes(value) THEN Raise("TypeError")
         ELSE Return([cls |-> "FieldContent", name |-> name,
                      value |-> value]))

FieldContent_build(self) == [data |-> (self.name :> self.value)]

(***************************************************************************)
(* FileContent                                                             *)
(***************************************************************************)
is_file(file) ==
    \/ file.t \in {"str", "bytes"}
    \/ file.t \in IOBaseClasses
    \/ file.t \in IterableClasses

\* The filename after lines 134-140: the argument, or the file's own name
\* (file.name, or what file.name() returns when it is callable).
resolved_filename(file, filename) ==
    IF filename.t = "NoneType" /\ file.hasname THEN file.name ELSE filename

\* Lines 151-156: the guessed type, or the default for the file's class.
file_enctype(guessed, file) ==
    IF guessed.t = "NoneType"
    THEN IF file.t \in TextIOBaseClasses \cup {"str"}
         THEN TEXT_PLAIN
         ELSE APPLICATION_OCTET_STREAM
    ELSE guessed.s

\* Lines 142-158, filename being the one resolved.
FileContent_named(name, file, filename) ==
    IF filename.t = "NoneType" THEN Raise("ValueError")
    ELSE Return([cls |-> "FileContent",
                 name |-> name,
                 filename |-> os_path_split_tail(filename.p),
                 enctype |-> file_enctype(guess_type(filename.p), file),
                 file |-> file])

FileContent_init(name, file, filename) ==
    Then(Content_init(name),
         IF ~is_file(file) THEN Raise("TypeError")
         ELSE FileContent_named(name, file,
                                resolved_filename(file, filename)))

FileContent_build(self) ==
    [data |-> self.file,
     headers |-> (CONTENT_TYPE :> self.enctype) @@
                 (CONTENT_DISPOSITION :>
                      "attachment; filename=" \o Join(self.filename))]

(***************************************************************************)
(* json.dumps(obj, allow_nan=allow_nan)                                    *)
(***************************************************************************)
Quoted(s) == "\"" \o s \o "\""

json_dumps(obj, allow_nan) ==
    CASE obj.t = "int" -> Return(Str(obj.s))
      [] obj.t = "str" -> Return(Str(Quoted(obj.s)))
      [] obj.t = "dict" ->
             Return(Str("{" \o Quoted(obj.k) \o ": " \o obj.v \o "}"))
      [] obj.t = "float" ->
             IF allow_nan THEN Return(Str(obj.s)) ELSE Raise("ValueError")
      [] OTHER -> Raise("TypeError")

(***************************************************************************)
(* JSONContent                                                             *)
(***************************************************************************)
JSONContent_init(name, json) ==
    Then(Content_init(name),
         Then(json_dumps(json, FALSE),
              Return([cls |-> "JSONContent", name |-> name, json |-> json])))

JSONContent_build(self) == [json |-> self.json]

(***************************************************************************)
(* Classes: type(obj) is obj.cls; isinstance follows the base classes.     *)
(* UploadContent stands for a subclass of FileContent defined by a caller. *)
(***************************************************************************)
Superclasses(cls) ==
    IF cls = "UploadContent"
    THEN {"UploadContent", "FileContent", "Content"}
    ELSE {cls, "Content"}

isinstance(obj, classes) == Superclasses(obj.cls) \cap classes # {}

exact_is_instance(obj, classes) ==
    /\ isinstance(obj, classes)
    /\ \E cls \in classes : obj.cls = cls

(***************************************************************************)
(* _extract, _create_or_append, _create_or_raise                           *)
(***************************************************************************)
extract(d) ==
    IF Cardinality(DOMAIN d) # 1 THEN Raise("ValueError")
    ELSE LET key == CHOOSE k \in DOMAIN d : TRUE
         IN Return([key |-> key, value |-> d[key]])

\* _create_or_append putting the new value first.
create_or_prepend(d, k, v) ==
    IF k \notin DOMAIN d
    THEN (k :> <<v>>) @@ d
    ELSE [d EXCEPT ![k] = <<v>> \o @]

create_or_append(d, k, v) ==
    IF k \notin DOMAIN d
    THEN (k :> <<v>>) @@ d
    ELSE [d EXCEPT ![k] = Append(@, v)]

\* _create_or_raise without its check: the later value replaces the first.
create_or_overwrite(d, k, v) == Return((k :> v) @@ d)

create_or_raise(d, k, v) ==
    IF k \in DOMAIN d
    THEN Raise("DuplicateValue")
    ELSE Return((k :> v) @@ d)

(***************************************************************************)
(* MultiContent                                                            *)
(***************************************************************************)
MultiContent_init(name) ==
    Then(Content_init(name),
         Return([cls |-> "MultiContent", name |-> name,
                 content_list |-> <<>>,
                 enctype |-> APPLICATION_X_WWW_FORM_URLENCODED]))

AcceptedClasses ==
    {"ParamContent", "FieldContent", "FileContent", "JSONContent"}

\* add() turning multipart for a FileContent only.
add_enctype_for_file_only(enc, content) ==
    IF isinstance(content, {"FileContent"})
    THEN MULTIPART_FORM_DATA
    ELSE enc

\* Lines 273-274: _enctype after one accepted content.
add_enctype(enc, content) ==
    IF ~isinstance(content, {"FieldContent", "ParamContent"})
    THEN MULTIPART_FORM_DATA
    ELSE enc

\* The loop of add() from contents[i] on: the form's fields when it ends,
\* the exception that ended it, and the contents it visited.
RECURSIVE add_loop(_, _, _, _)
add_loop(list, enc, contents, i) ==
    IF i > Len(contents)
    THEN [content_list |-> list, enctype |-> enc, exc |-> "none",
          visited |-> contents]
    ELSE IF ~exact_is_instance(contents[i], AcceptedClasses)
    THEN [content_list |-> list, enctype |-> enc, exc |-> "TypeError",
          visited |-> SubSeq(contents, 1, i)]
    ELSE add_loop(Append(list, contents[i]),
                  add_enctype(enc, contents[i]), contents, i + 1)

MultiContent_add(list, enc, contents) == add_loop(list, enc, contents, 1)

\* The parameters of _build with exc, the exception a statement raised.
Failed(parameters, exc) == [parameters EXCEPT !.exc = exc]

\* Lines 285-286 (key "params") and 289-290 (key "data"), extracted being
\* the outcome of _extract.
append_extracted(parameters, key, extracted) ==
    IF extracted.exc # "none" THEN Failed(parameters, extracted.exc)
    ELSE [parameters EXCEPT
              ![key] = create_or_append(@, extracted.ret.key,
                                        extracted.ret.value)]

\* Lines 299 and 305, created being the outcome of _create_or_raise.
set_files(parameters, created) ==
    IF created.exc # "none" THEN Failed(parameters, created.exc)
    ELSE [parameters EXCEPT !.files = created.ret]

\* Lines 284-286
build_if_param(parameters, content) ==
    IF parameters.exc = "none" /\ isinstance(content, {"ParamContent"})
    THEN append_extracted(parameters, "params",
                          extract(ParamContent_build(content).params))
    ELSE parameters

\* Lines 288-290
build_if_field(parameters, content) ==
    IF parameters.exc = "none" /\ isinstance(content, {"FieldContent"})
    THEN append_extracted(parameters, "data",
                          extract(FieldContent_build(content).data))
    ELSE parameters

\* Lines 292-299
build_if_file(parameters, content) ==
    IF parameters.exc = "none" /\ isinstance(content, {"FileContent"})
    THEN set_files(parameters,
                   create_or_raise(parameters.files, content.name,
                                   <<Path(content.filename),
                                     FileContent_build(content).data,
                                     content.enctype>>))
    ELSE parameters

\* Lines 303-305, json being the outcome of jsondumps.
add_json(parameters, name, json) ==
    IF json.exc # "none" THEN Failed(parameters, json.exc)
    ELSE set_files(parameters,
                   create_or_raise(parameters.files, name,
                                   <<None, json.ret, APPLICATION_JSON>>))

\* Lines 301-305
build_if_json(parameters, content) ==
    IF parameters.exc = "none" /\ isinstance(content, {"JSONContent"})
    THEN add_json(parameters, content.name,
                  json_dumps(JSONContent_build(content).json, TRUE))
    ELSE parameters

\* Lines 284-305: the parameters after one member of the list.
build_member(parameters, content) ==
    build_if_json(
        build_if_file(
            build_if_field(
                build_if_param(parameters, content), content), content),
        content)

RECURSIVE build_loop(_, _, _)
build_loop(list, i, parameters) ==
    IF i > Len(list) \/ parameters.exc # "none"
    THEN parameters
    ELSE build_loop(list, i + 1, build_member(parameters, list[i]))

\* Line 307, or the exception the loop raised.
build_return(parameters) ==
    IF parameters.exc # "none" THEN Raise(parameters.exc)
    ELSE Return([params |-> parameters.params, data |-> parameters.data,
                 files |-> parameters.files])

MultiContent_build(list) ==
    build_return(build_loop(list, 1,
                            [params |-> EmptyDict, data |-> EmptyDict,
                             files |-> EmptyDict, exc |-> "none"]))

MultiContent_enctype(enc) == Str(enc)

(***************************************************************************)
(* The contents callers construct, as the constructors return them.       *)
(***************************************************************************)
Names == {Str("n1"), Str("n2")}

Constructed(outcomes) == {r.ret : r \in {o \in outcomes : o.exc = "none"}}

Params ==
    Constructed({ParamContent_init(n, v) :
                     n \in Names \cup {PyInt("7")},
                     v \in {Str("v1"), PyInt("1")}}
                \cup {ParamContent_init(Str("n1"), Str("v2"))})

Fields ==
    Constructed({FieldContent_init(n, v) :
                     n \in Names \cup {PyInt("7")},
                     v \in {Str("v1"), PyInt("1")}}
                \cup {FieldContent_init(Str("n1"), Str("v2"))})

ReportTxt == FileObj("TextIOWrapper", TRUE, FALSE, Path(<<"c", "/", "c">>))

Files ==
    Constructed({FileContent_init(Str("n1"), ReportTxt, None),
                 FileContent_init(Str("n1"), Unnamed("bytes"), None)}
                \cup {FileContent_init(n, Unnamed("bytes"),
                                       Path(<<"c", ".", "c">>)) :
                          n \in Names})

JSONs ==
    Constructed({JSONContent_init(n, j) :
                     n \in Names, j \in {Dict1("a", "1"), NaN}}
                \cup {JSONContent_init(Str("n1"), PyInt("1"))})

Pool == Params \cup Fields \cup Files \cup JSONs

\* What add() refuses: a nested MultiContent, an instance of a subclass.
Nested == MultiContent_init(Str("inner")).ret

Upload ==
    [FileContent_init(Str("n1"), ReportTxt, None).ret
         EXCEPT !.cls = "UploadContent"]

AddInputs == Pool \cup {Nested, Upload}

\* The argument lists of add() with n contents.
ArgLists(n) == [1..n -> AddInputs]

(***************************************************************************)
(* Spec: one MultiContent form, and add(), build() and enctype() called on *)
(* it in any order.                                                        *)
(***************************************************************************)
\* form = MultiContent("form")
InitForm(form) ==
    /\ content_list = form.content_list
    /\ enctype = form.enctype

Init ==
    /\ InitForm(MultiContent_init(Str("form")).ret)
    /\ call = [op |-> "MultiContent"]
    /\ raised = "none"
    /\ returned = None
    /\ builds = 0
    /\ requests = <<>>

\* The form and the caller after add(), r being what the loop came to.
Added(r) ==
    /\ content_list' = r.content_list
    /\ enctype' = r.enctype
    /\ call' = [op |-> "add", contents |-> r.visited]
    /\ raised' = r.exc
    /\ returned' = None
    /\ UNCHANGED <<builds, requests>>

Add(contents) == Added(MultiContent_add(content_list, enctype, contents))

\* The caller after an operation that changes nothing of the form.
Outcome(op, r) ==
    /\ call' = [op |-> op]
    /\ raised' = r.exc
    /\ returned' = r.ret
    /\ UNCHANGED <<content_list, enctype, builds, requests>>

\* build() taking the members off the list as it visits them.
BuildDraining ==
    /\ call' = [op |-> "build"]
    /\ raised' = MultiContent_build(content_list).exc
    /\ returned' = MultiContent_build(content_list).ret
    /\ content_list' = <<>>
    /\ UNCHANGED <<enctype, builds, requests>>

Build == Outcome("build", MultiContent_build(content_list))

Enctype == Outcome("enctype", Return(MultiContent_enctype(enctype)))

AddCall ==
    \E n \in 0..MaxArgs :
        /\ Len(content_list) + n <= MaxMembers
        /\ \E contents \in ArgLists(n) : Add(contents)

Next ==
    \/ AddCall
    \/ Build
    \/ Enctype

Spec == Init /\ [][Next]_vars

(***************************************************************************)
(* Claims about the form (Spec).                                           *)
(***************************************************************************)
IsFilePart(c) == c.cls \in {"FileContent", "JSONContent"}

\* Two File/JSONValue members of the list have the same name.
DuplicatePart(list) ==
    \E i, j \in 1..Len(list) :
        /\ i < j
        /\ IsFilePart(list[i])
        /\ IsFilePart(list[j])
        /\ list[i].name = list[j].name

MembersNamed(list, cls, n) ==
    SelectSeq(list, LAMBDA c : c.cls = cls /\ c.name = n)

ValuesNamed(list, cls, n) ==
    [i \in 1..Len(MembersNamed(list, cls, n)) |->
         MembersNamed(list, cls, n)[i].value]

NamesOf(list, classes) ==
    {list[i].name : i \in {j \in 1..Len(list) : list[j].cls \in classes}}

\* C3: a successful build() of the form returns exactly params, data and
\* files; params[n] (data[n]) lists the values of the Parameter (Field)
\* members named n in insertion order; files[n] is (filename, payload,
\* content-type) of the File named n or (None, serialized JSON,
\* "application/json") of the JSONValue named n; there are no other keys.
C3_BuildResultShape ==
    (call.op = "build" /\ raised = "none") =>
        /\ DOMAIN returned = {"params", "data", "files"}
        /\ DOMAIN returned.params = NamesOf(content_list, {"ParamContent"})
        /\ \A n \in DOMAIN returned.params :
               returned.params[n] = ValuesNamed(content_list, "ParamContent", n)
        /\ DOMAIN returned.data = NamesOf(content_list, {"FieldContent"})
        /\ \A n \in DOMAIN returned.data :
               returned.data[n] = ValuesNamed(content_list, "FieldContent", n)
        /\ DOMAIN returned.files =
               NamesOf(content_list, {"FileContent", "JSONContent"})
        /\ \A i \in 1..Len(content_list) :
               LET c == content_list[i]
               IN /\ c.cls = "FileContent" =>
                         returned.files[c.name] =
                             <<Path(c.filename), c.file, c.enctype>>
                  /\ c.cls = "JSONContent" =>
                         returned.files[c.name] =
                             <<None, json_dumps(c.json, TRUE).ret,
                               APPLICATION_JSON>>

\* Two Fields named n1 were added as v1 then v2, with a JSONValue {"a": 1}.
C3_Witness_OrderedFieldsAndJson ==
    /\ call.op = "build"
    /\ raised = "none"
    /\ Len(content_list) = 3
    /\ returned.data = (Str("n1") :> <<Str("v1"), Str("v2")>>)
    /\ \E n \in DOMAIN returned.files :
           returned.files[n] = <<None, Str("{\"a\": 1}"), APPLICATION_JSON>>

HasFilePart(list) == \E i \in 1..Len(list) : IsFilePart(list[i])

\* C4: in every state of the form, after add() calls that returned or
\* raised, its content-type is multipart/form-data if and only if a member
\* is a File or a JSONValue, and application/x-www-form-urlencoded
\* otherwise; enctype() reports it; once multipart it stays multipart.
C4_EnctypeIffFilePart ==
    /\ [](/\ enctype = MULTIPART_FORM_DATA <=> HasFilePart(content_list)
          /\ enctype = APPLICATION_X_WWW_FORM_URLENCODED
                 <=> ~HasFilePart(content_list)
          /\ call.op = "enctype" => returned = Str(enctype))
    /\ [][enctype = MULTIPART_FORM_DATA =>
              enctype' = MULTIPART_FORM_DATA]_vars

\* A File was added to a form of Fields, and enctype() reports multipart.
C4_Witness_FileFlipsFieldsForm ==
    /\ call.op = "enctype"
    /\ returned = Str(MULTIPART_FORM_DATA)
    /\ Len(content_list) = 3
    /\ content_list[1].cls = "FieldContent"
    /\ content_list[2].cls = "FieldContent"
    /\ content_list[3].cls = "FileContent"

\* A fresh form to which all of list is added in one add() call.
AddedAtOnce(list) ==
    MultiContent_add(MultiContent_init(Str("form")).ret.content_list,
                     MultiContent_init(Str("form")).ret.enctype, list)

\* C9: build() on the form leaves its members and content-type as they
\* were, two consecutive build() calls have the same outcome, and the
\* outcome is that of build() on a fresh form given the same members in a
\* single add() call, whatever add() and build() calls came before.
C9_BuildIsPure ==
    [][call'.op = "build" =>
          /\ content_list' = content_list
          /\ enctype' = enctype
          /\ call.op = "build" => (raised' = raised /\ returned' = returned)
          /\ AddedAtOnce(content_list).exc = "none"
          /\ raised' = MultiContent_build(
                           AddedAtOnce(content_list).content_list).exc
          /\ returned' = MultiContent_build(
                             AddedAtOnce(content_list).content_list).ret]_vars

\* build() returned on a form of two members.
C9_Witness_BuiltTwoMembers ==
    /\ call.op = "build"
    /\ raised = "none"
    /\ Len(content_list) = 2
    /\ content_list[1] # content_list[2]

\* C10: an add() call that raises TypeError leaves the form's members and
\* content-type as they were before the call.
C10_FailedAddChangesNothing ==
    [][(call'.op = "add" /\ raised' = "TypeError") =>
          (content_list' = content_list /\ enctype' = enctype)]_vars

(***************************************************************************)
(* App.crequest                                                            *)
(***************************************************************************)
\* Content.build(): the _build of the content's class.
Content_build(content) ==
    CASE content.cls = "ParamContent" -> Return(ParamContent_build(content))
      [] content.cls = "FieldContent" -> Return(FieldContent_build(content))
      [] content.cls = "FileContent" -> Return(FileContent_build(content))
      [] content.cls = "JSONContent" -> Return(JSONContent_build(content))
      [] content.cls = "MultiContent" ->
             MultiContent_build(content.content_list)

invalid_params == {"data", "json", "files", "params"}

\* The check of lines 58-63 looking for "data" alone.
has_data_param(kwargs) == "data" \in DOMAIN kwargs

\* Lines 58-63: some invalid parameter is a key of kwargs.
has_invalid_params(kwargs) ==
    \E name \in invalid_params : name \in DOMAIN kwargs

\* Line 67, and the truth of `headers` in line 68: kwargs.pop("headers",
\* None) is a dict with an entry.
headers_given(kwargs) ==
    /\ "headers" \in DOMAIN kwargs
    /\ DOMAIN kwargs["headers"] # {}

\* headers.update(parameters["headers"]): the content's entries win.
update_headers_reversed(parameters, kwargs) ==
    IF headers_given(kwargs) /\ "headers" \in DOMAIN parameters
    THEN [parameters EXCEPT !["headers"] = @ @@ kwargs["headers"]]
    ELSE parameters

\* Lines 68-69: parameters["headers"].update(headers)
update_headers(parameters, kwargs) ==
    IF headers_given(kwargs) /\ "headers" \in DOMAIN parameters
    THEN [parameters EXCEPT !["headers"] = kwargs["headers"] @@ @]
    ELSE parameters

\* Line 71: parameters.update(kwargs), "headers" popped from kwargs before.
update_kwargs(parameters, kwargs) ==
    [k \in DOMAIN kwargs \ {"headers"} |-> kwargs[k]] @@ parameters

\* crequest up to its call of Session.request: the exception raised before
\* it, the content.build() calls made, and the request forwarded.
\* Lines 67-73, built being the outcome of content.build().
crequest_built(method, url, built, kwargs) ==
    IF built.exc # "none"
    THEN [exc |-> built.exc, builds |-> 1, requests |-> <<>>]
    ELSE [exc |-> "none", builds |-> 1,
          requests |->
              <<[method |-> method, url |-> url,
                 parameters |->
                     update_kwargs(update_headers(built.ret, kwargs),
                                   kwargs)]>>]

App_crequest(method, url, content, kwargs) ==
    IF has_invalid_params(kwargs)
    THEN [exc |-> "ValueError", builds |-> 0, requests |-> <<>>]
    ELSE crequest_built(method, url, Content_build(content), kwargs)

\* Session.request is the external engine: it returns a Response or raises.
Response == [t |-> "Response"]
EngineOutcomes == {Return(Response), Raise("ConnectionError")}

(***************************************************************************)
(* SpecApp: a form grown by add() calls, and App.crequest called with a    *)
(* content (the form or a single content) and keyword arguments.           *)
(***************************************************************************)
TheParam == ParamContent_init(Str("n1"), Str("v1")).ret
TheField == FieldContent_init(Str("n1"), Str("v1")).ret
TheFile == FileContent_init(Str("n1"), ReportTxt, None).ret
TheJSON == JSONContent_init(Str("n1"), Dict1("a", "1")).ret

AppPool == {TheParam, TheField, TheFile, TheJSON}

\* The form as an argument: the object with its fields of now.
Form ==
    [MultiContent_init(Str("form")).ret
         EXCEPT !.content_list = content_list, !.enctype = enctype]

HeaderDicts ==
    {EmptyDict,
     ("X-Extra" :> "1"),
     (CONTENT_TYPE :> "x/y"),
     ("X-Extra" :> "1") @@ (CONTENT_TYPE :> "x/y")}

KwargsSet ==
    {inv @@ hd @@ tm :
         inv \in UNION {[S -> {Str("x")}] : S \in SUBSET invalid_params},
         hd \in {EmptyDict} \cup {("headers" :> h) : h \in HeaderDicts},
         tm \in {EmptyDict, ("timeout" :> PyInt("5"))}}

Idle == call.op \in {"MultiContent", "idle"}

AppAdd ==
    /\ Idle
    /\ Len(content_list) < MaxAppMembers
    /\ \E c \in AppPool : Add(<<c>>)

\* The caller after crequest, r being what it came to before the engine.
Requested(content, kwargs, r) ==
    /\ call' = [op |-> "crequest", content |-> content, kwargs |-> kwargs]
    /\ builds' = r.builds
    /\ requests' = r.requests
    /\ IF r.exc # "none"
       THEN raised' = r.exc /\ returned' = None
       ELSE \E o \in EngineOutcomes : raised' = o.exc /\ returned' = o.ret
    /\ UNCHANGED <<content_list, enctype>>

CRequest ==
    /\ Idle
    /\ \E content \in AppPool \cup {Form}, kwargs \in KwargsSet :
           Requested(content, kwargs,
                     App_crequest("POST", "http://localhost:8000/",
                                  content, kwargs))

\* The call is over and its caller goes on.
CallReturns ==
    /\ ~Idle
    /\ call' = [op |-> "idle"]
    /\ raised' = "none"
    /\ returned' = None
    /\ builds' = 0
    /\ requests' = <<>>
    /\ UNCHANGED <<content_list, enctype>>

NextApp ==
    \/ AppAdd
    \/ CRequest
    \/ CallReturns

SpecApp == Init /\ [][NextApp]_vars

(***************************************************************************)
(* Claims about App.crequest (SpecApp).                                    *)
(***************************************************************************)
\* C1: crequest with a keyword argument data, json, files or params raises
\* ValueError and calls neither content.build() nor Session.request,
\* whatever the content and the other keyword arguments.
C1_InvalidParamsRejectedBeforeBuild ==
    (call.op = "crequest"
        /\ DOMAIN call.kwargs \cap {"data", "json", "files", "params"} # {})
    => (raised = "ValueError" /\ builds = 0 /\ requests = <<>>)

\* crequest with the form, files= and headers= and timeout= raised.
C1_Witness_FilesKeywordRejected ==
    /\ call.op = "crequest"
    /\ DOMAIN call.kwargs = {"files", "headers", "timeout"}
    /\ call.content.cls = "MultiContent"
    /\ Len(call.content.content_list) = 2
    /\ raised = "ValueError"

\* C5: crequest with a File content and headers among the keyword
\* arguments forwards the File's own headers updated with the given ones:
\* every given entry, every own entry under a key not given, and on a key
\* of both the given value.
C5_FileHeadersUpdatedWithOverrides ==
    (call.op = "crequest" /\ call.content.cls = "FileContent"
        /\ "headers" \in DOMAIN call.kwargs
        /\ DOMAIN call.kwargs \cap {"data", "json", "files", "params"} = {})
    => /\ Len(requests) = 1
       /\ "headers" \in DOMAIN requests[1].parameters
       /\ LET sent == requests[1].parameters["headers"]
              given == call.kwargs["headers"]
              own == (CONTENT_TYPE :> call.content.enctype) @@
                     (CONTENT_DISPOSITION :>
                          "attachment; filename=" \o Join(call.content.filename))
          IN /\ DOMAIN sent = DOMAIN own \cup DOMAIN given
             /\ \A k \in DOMAIN given : sent[k] = given[k]
             /\ \A k \in DOMAIN own \ DOMAIN given : sent[k] = own[k]

\* A given Content-Type replaced the File's, its Content-Disposition stayed
\* and X-Extra was added.
C5_Witness_ContentTypeOverridden ==
    /\ call.op = "crequest"
    /\ call.content.cls = "FileContent"
    /\ Len(requests) = 1
    /\ requests[1].parameters["headers"] =
           (CONTENT_TYPE :> "x/y") @@ ("X-Extra" :> "1") @@
           (CONTENT_DISPOSITION :> "attachment; filename=c")

\* C6: the headers given to crequest are sent with the request: for every
\* content and every non-empty headers keyword argument, each given entry
\* is among the headers forwarded to Session.request.
C6_GivenHeadersAreSent ==
    (call.op = "crequest" /\ Len(requests) = 1
        /\ "headers" \in DOMAIN call.kwargs
        /\ DOMAIN call.kwargs["headers"] # {})
    => /\ "headers" \in DOMAIN requests[1].parameters
       /\ \A k \in DOMAIN call.kwargs["headers"] :
              /\ k \in DOMAIN requests[1].parameters["headers"]
              /\ requests[1].parameters["headers"][k] =
                     call.kwargs["headers"][k]

\* C7: after contents were constructed and added to the form by add() calls
\* that returned, build() on the form does not fail, and crequest with the
\* form reaches Session.request.
C7_BuildNeverFailsAfterAdds ==
    (call.op = "crequest" /\ call.content.cls = "MultiContent"
        /\ DOMAIN call.kwargs \cap {"data", "json", "files", "params"} = {})
    => (builds = 1 /\ Len(requests) = 1
           /\ raised \in {"none", "ConnectionError"})

(***************************************************************************)
(* SpecFile: one FileContent(name, file, filename) call on arguments drawn *)
(* from NameArgs, FileArgs and FilenameArgs.                               *)
(***************************************************************************)
PathChars == {"c", "/", "."}

RECURSIVE PathsOfLen(_)
PathsOfLen(n) ==
    IF n = 0 THEN {<<>>}
    ELSE {Append(p, ch) : p \in PathsOfLen(n - 1), ch \in PathChars}

Paths == UNION {PathsOfLen(n) : n \in 0..MaxPathLen}

NameArgs == {Str("n1"), Bytes("n1"), PyInt("7")}

FilenameArgs == {None} \cup {Path(p) : p \in Paths}

FileArgs ==
    {Unnamed("str"), Unnamed("bytes"), Unnamed("BytesIO"), Unnamed("list"),
     Unnamed("int")}
    \cup {FileObj(t, TRUE, FALSE, n) :
              t \in {"TextIOWrapper", "BufferedReader"}, n \in FilenameArgs}
    \cup {FileObj("NamedIterable", TRUE, TRUE, n) : n \in FilenameArgs}

InitFile ==
    /\ content_list = <<>>
    /\ enctype = APPLICATION_X_WWW_FORM_URLENCODED
    /\ call \in {[op |-> "FileContent", name |-> n, file |-> f, filename |-> fn] :
                    n \in NameArgs, f \in FileArgs, fn \in FilenameArgs}
    /\ raised = "pending"
    /\ returned = None
    /\ builds = 0
    /\ requests = <<>>

\* The caller after the constructor, r being its outcome.
Constructed_as(r) ==
    /\ raised' = r.exc
    /\ returned' = r.ret
    /\ UNCHANGED <<content_list, enctype, call, builds, requests>>

NewFileContent ==
    /\ raised = "pending"
    /\ call.op = "FileContent"
    /\ Constructed_as(FileContent_init(call.name, call.file, call.filename))

NextFile == NewFileContent

SpecFile == InitFile /\ [][NextFile]_vars

\* C8: every successfully constructed File has a non-empty filename, the
\* final path component of the filename argument or else of the payload's
\* own name; and when no non-empty filename can be resolved (a valid name
\* and file given) the construction raises ValueError.
FinalComponent(fn) == os_path_split_tail(fn.p)

NoFilenameResolved(file, filename) ==
    LET fn == resolved_filename(file, filename)
    IN fn.t = "NoneType" \/ FinalComponent(fn) = <<>>

C8_FilenameNonEmptyOrValueError ==
    (call.op = "FileContent" /\ raised # "pending") =>
        /\ raised = "none" =>
              /\ returned.filename # <<>>
              /\ returned.filename =
                     FinalComponent(resolved_filename(call.file, call.filename))
        /\ (IsStrOrBytes(call.name) /\ is_file(call.file)
               /\ NoFilenameResolved(call.file, call.filename))
              => raised = "ValueError"

====
